---- MODULE Spec2Model ----
(***************************************************************************)
(* Model of the teacher-dashboard backend: src/server.js and its earlier   *)
(* variant src/unnamed/part_000.  Every handler is a sequence of steps,    *)
(* one step per `await pool.query(...)`: the statements of requests that   *)
(* are in flight together interleave at that granularity.                  *)
(*                                                                         *)
(* The database is MySQL as the code addresses it (mysql2, MYSQL* env      *)
(* variables) with its default sql_mode (strict): a NOT NULL column        *)
(* without default that an INSERT omits is an error, a duplicate of a      *)
(* UNIQUE key is ER_DUP_ENTRY, and ALTER TABLE ... ADD COLUMN IF NOT       *)
(* EXISTS (part_000) is a syntax error.  Column names of the model are     *)
(* lower case, at most 64 characters long and hold no '.' or backtick, so  *)
(* that the database's case folding and mysql.escapeId leave them as they  *)
(* are.                                                                    *)
(***************************************************************************)
EXTENDS Integers, Sequences, FiniteSets, TLC

VARIABLES registry, cols, students, req, prev, work, workResp, startup

vars == <<registry, cols, students, req, prev, work, workResp, startup>>

----------------------------------------------------------------------------
(* Values and names *)

Null == "<null>"
Undefined == "<undefined>"

BaseColumns == <<"student_id", "name", "class", "section">>

BaseSet == {BaseColumns[i] : i \in 1..Len(BaseColumns)}

AutoCols == {"id", "created_at"}

StudentsColumns == AutoCols \cup BaseSet

NotNullNoDefault == BaseSet

Chars(n) ==
  CASE n = "id" -> <<"i", "d">>
    [] n = "student_id" -> <<"s", "t", "u", "d", "e", "n", "t", "_", "i", "d">>
    [] n = "name" -> <<"n", "a", "m", "e">>
    [] n = "class" -> <<"c", "l", "a", "s", "s">>
    [] n = "section" -> <<"s", "e", "c", "t", "i", "o", "n">>
    [] n = "created_at" -> <<"c", "r", "e", "a", "t", "e", "d", "_", "a", "t">>
    [] n = "age" -> <<"a", "g", "e">>
    [] n = "house" -> <<"h", "o", "u", "s", "e">>
    [] n = "na_e" -> <<"n", "a", "_", "e">>
    [] n = "note " -> <<"n", "o", "t", "e", " ">>

RECURSIVE Like(_, _)
Like(p, s) ==
  IF p = <<>> THEN s = <<>>
  ELSE IF Head(p) = "%" THEN Like(Tail(p), s) \/ (s # <<>> /\ Like(p, Tail(s)))
  ELSE /\ s # <<>>
       /\ (Head(p) = "_" \/ Head(p) = Head(s))
       /\ Like(Tail(p), Tail(s))

IdentifierOk(n) ==
  /\ Len(Chars(n)) >= 1
  /\ Chars(n)[Len(Chars(n))] # " "

Range(s) == {s[i] : i \in 1..Len(s)}

----------------------------------------------------------------------------
(* The statements the handlers issue, as the database answers them *)

SelectRegistryNothing(reg, n) == <<>>

SelectRegistryByName(reg, n) == SelectSeq(reg, LAMBDA x : x = n)

ShowColumnsLike(cs, n) == {c \in cs : Like(Chars(n), Chars(c))}

InsertRegistry(reg, n) ==
  IF n \in Range(reg)
  THEN [err |-> "ER_DUP_ENTRY", reg |-> reg]
  ELSE [err |-> "", reg |-> Append(reg, n)]

InsertIgnoreRegistry(reg, n) ==
  IF n \in Range(reg) THEN reg ELSE Append(reg, n)

DeleteRegistry(reg, n) == SelectSeq(reg, LAMBDA x : x # n)

DataCols(cs) == cs \ AutoCols

AlterAddError(cs, n) ==
  IF ~IdentifierOk(n) THEN "ER_WRONG_COLUMN_NAME"
  ELSE IF n \in cs THEN "ER_DUP_FIELDNAME"
  ELSE ""

AddColumnRows(rows, cs, n) ==
  {[c \in DataCols(cs \cup {n}) |-> IF c = n THEN Null ELSE r[c]] : r \in rows}

AlterDropError(cs, n) ==
  IF n \in cs THEN "" ELSE "ER_CANT_DROP_FIELD_OR_KEY"

DropColumnRows(rows, cs, n) ==
  {[c \in DataCols(cs \ {n}) |-> r[c]] : r \in rows}

(* A spreadsheet row is a JavaScript object: a sequence of key/value entries *)

Keys(row) == [i \in 1..Len(row) |-> row[i].k]

Get(row, k) ==
  IF \E i \in 1..Len(row) : row[i].k = k
  THEN row[CHOOSE i \in 1..Len(row) : row[i].k = k].v
  ELSE Undefined

SqlValue(v) == IF v = Undefined THEN Null ELSE v

InsertStudentsError(cs, rows, entries) ==
  IF \E e \in Range(entries) : e.k \notin cs THEN "ER_BAD_FIELD_ERROR"
  ELSE IF \E e \in Range(entries) : e.k \in NotNullNoDefault /\ SqlValue(e.v) = Null
       THEN "ER_BAD_NULL_ERROR"
  ELSE IF \E c \in NotNullNoDefault : c \notin Range(Keys(entries))
       THEN "ER_NO_DEFAULT_FOR_FIELD"
  ELSE IF \E r \in rows : r["student_id"] = Get(entries, "student_id")
       THEN "ER_DUP_ENTRY"
  ELSE ""

NewStudent(cs, entries) ==
  [c \in DataCols(cs) |->
     IF c \in Range(Keys(entries)) THEN SqlValue(Get(entries, c)) ELSE Null]

UpdateStudentsError(cs, rows, sets, sid) ==
  IF \E e \in Range(sets) : e.k \notin cs THEN "ER_BAD_FIELD_ERROR"
  ELSE IF \E e \in Range(sets), r \in rows :
            /\ r["student_id"] = SqlValue(sid)
            /\ e.k \in NotNullNoDefault /\ SqlValue(e.v) = Null
       THEN "ER_BAD_NULL_ERROR"
  ELSE ""

UpdateStudents(cs, rows, sets, sid) ==
  {IF r["student_id"] = SqlValue(sid)
   THEN [c \in DataCols(cs) |->
           IF c \in Range(Keys(sets)) THEN SqlValue(Get(sets, c)) ELSE r[c]]
   ELSE r : r \in rows}

----------------------------------------------------------------------------
(* Startup: initDB(retries = 5) and initDB().then(app.listen).  One step   *)
(* per await.  The database may refuse the connection or fail a statement  *)
(* at any step; a table that CREATE TABLE IF NOT EXISTS made stays in the  *)
(* database when a later step of the attempt fails.  attempts counts the   *)
(* calls of initDB, delays lists the timers awaited between them, and      *)
(* connected / created say whether the connection test and createTables    *)
(* of the attempt in progress have succeeded, and done holds the tables    *)
(* its createTables has gone through.  held counts the connections         *)
(* createTables has taken from the pool and not released.                  *)

Retries == 5

RetryDelay == 5000

Tables == <<"students", "table_columns", "work_status">>

Starting ==
  [pc |-> "initDB", retries |-> Retries, attempts |-> 0, delays |-> <<>>,
   connected |-> FALSE, created |-> FALSE, tables |-> {}, done |-> {}, held |-> 0,
   listening |-> FALSE, exitCode |-> 0]

Started ==
  [Starting EXCEPT !.pc = "listening", !.attempts = 1, !.connected = TRUE,
                   !.created = TRUE, !.tables = Range(Tables),
                   !.listening = TRUE]

RetryOnceMore(retries) == retries >= 0

RetryAllowed(retries) == retries > 0

Catch(s) ==
  IF RetryAllowed(s.retries)
  THEN [s EXCEPT !.pc = "delay"]
  ELSE [s EXCEPT !.pc = "exited", !.exitCode = 1]

InitDBGetConnection(ok) ==
  /\ startup.pc = "initDB"
  /\ startup' =
       LET s == [startup EXCEPT !.attempts = @ + 1,
                                !.connected = FALSE, !.created = FALSE]
       IN  IF ok THEN [s EXCEPT !.connected = TRUE, !.pc = "createTables"]
           ELSE Catch(s)
  /\ UNCHANGED <<registry, cols, students, req, prev, work, workResp>>

CreateTablesGetConnection(ok) ==
  /\ startup.pc = "createTables"
  /\ startup' = IF ok THEN [startup EXCEPT !.held = @ + 1, !.pc = "create"]
                ELSE Catch(startup)
  /\ UNCHANGED <<registry, cols, students, req, prev, work, workResp>>

CreateTable(ok) ==
  /\ startup.pc = "create"
  /\ startup' =
       LET t == Tables[Cardinality(startup.done) + 1]
           s == [startup EXCEPT !.done = @ \cup {t}, !.tables = @ \cup {t}]
       IN  IF ~ok THEN Catch([startup EXCEPT !.held = @ - 1, !.done = {}])
           ELSE IF s.done = Range(Tables)
                THEN [s EXCEPT !.held = @ - 1, !.done = {}, !.created = TRUE,
                               !.pc = "resolved"]
                ELSE s
  /\ UNCHANGED <<registry, cols, students, req, prev, work, workResp>>

RetryAfterDelay ==
  /\ startup.pc = "delay"
  /\ startup' = [startup EXCEPT !.delays = Append(@, RetryDelay),
                                !.retries = @ - 1, !.pc = "initDB"]
  /\ UNCHANGED <<registry, cols, students, req, prev, work, workResp>>

Listen ==
  /\ startup.pc = "resolved"
  /\ startup' = [startup EXCEPT !.pc = "listening", !.listening = TRUE]
  /\ UNCHANGED <<registry, cols, students, req, prev, work, workResp>>

----------------------------------------------------------------------------
(* Requests.  A request in flight holds its handler's position (pc), its  *)
(* input (name, sheet), its locals (newCols, the loop indices ci and ri,   *)
(* the counters processed and failed) and its response (code, msg, list).  *)
(* colErrs and log are what the upload handler prints: the errors caught   *)
(* in the column loop and, per row, inserted / updated / failed / skipped  *)
(* / unchanged.  rows0 is the students table as the upload found it, reg0  *)
(* the registry as an addColumn request found it, and prev is the request  *)
(* that was answered last.                                                 *)

Procs == {1, 2}

Idle ==
  [kind |-> "idle", pc |-> "idle", name |-> "", sheet |-> <<>>,
   newCols |-> <<>>, ci |-> 0, ri |-> 0, processed |-> 0, failed |-> 0,
   colErrs |-> <<>>, log |-> <<>>, code |-> 0, msg |-> "", list |-> <<>>,
   rows0 |-> {}, reg0 |-> <<>>]

NoPrev == [kind |-> "none", name |-> "", code |-> 0, sheet |-> <<>>,
           processed |-> 0, failed |-> 0, newCols |-> <<>>]

Respond(r, code, msg) == [r EXCEPT !.pc = "done", !.code = code, !.msg = msg]

Init ==
  /\ registry = <<>>
  /\ cols = StudentsColumns
  /\ students = {}
  /\ req = [p \in Procs |-> Idle]
  /\ prev = NoPrev
  /\ work = <<>>
  /\ workResp = [code |-> 0, id |-> 0]
  /\ startup = Started

----------------------------------------------------------------------------
(* GET /api/columns *)

ListColumnsResult(reg) == BaseColumns \o reg

StartListColumns(p) ==
  /\ req[p].kind = "idle"
  /\ req' = [req EXCEPT ![p] = [Idle EXCEPT !.kind = "listColumns", !.pc = "select"]]
  /\ UNCHANGED <<registry, cols, students, prev, work, workResp, startup>>

ListColumnsSelect(p) ==
  /\ req[p].kind = "listColumns" /\ req[p].pc = "select"
  /\ req' = [req EXCEPT ![p] =
               [Respond(@, 200, "") EXCEPT !.list = ListColumnsResult(registry)]]
  /\ UNCHANGED <<registry, cols, students, prev, work, workResp, startup>>

----------------------------------------------------------------------------
(* POST /api/columns, src/server.js *)

StartAddColumn(p, n) ==
  /\ req[p].kind = "idle"
  /\ req' = [req EXCEPT ![p] =
               [Idle EXCEPT !.kind = "addColumn", !.pc = "selectExisting", !.name = n,
                            !.reg0 = registry]]
  /\ UNCHANGED <<registry, cols, students, prev, work, workResp, startup>>

AddColumnSelectExisting(p) ==
  /\ req[p].kind = "addColumn" /\ req[p].pc = "selectExisting"
  /\ req' = [req EXCEPT ![p] =
               IF Len(SelectRegistryByName(registry, @.name)) > 0
               THEN Respond(@, 400, "Column already exists")
               ELSE [@ EXCEPT !.pc = "showColumns"]]
  /\ UNCHANGED <<registry, cols, students, prev, work, workResp, startup>>

AddColumnShowColumns(p) ==
  /\ req[p].kind = "addColumn" /\ req[p].pc = "showColumns"
  /\ req' = [req EXCEPT ![p] =
               IF Cardinality(ShowColumnsLike(cols, @.name)) > 0
               THEN Respond(@, 400, "Column already exists in table")
               ELSE [@ EXCEPT !.pc = "insert"]]
  /\ UNCHANGED <<registry, cols, students, prev, work, workResp, startup>>

AddColumnInsert(p) ==
  /\ req[p].kind = "addColumn" /\ req[p].pc = "insert"
  /\ LET res == InsertRegistry(registry, req[p].name) IN
       /\ registry' = res.reg
       /\ req' = [req EXCEPT ![p] =
                    IF res.err # "" THEN Respond(@, 500, res.err)
                    ELSE [@ EXCEPT !.pc = "alter"]]
  /\ UNCHANGED <<cols, students, prev, work, workResp, startup>>

AddColumnAlter(p) ==
  /\ req[p].kind = "addColumn" /\ req[p].pc = "alter"
  /\ LET n == req[p].name
         err == AlterAddError(cols, n) IN
       IF err # ""
       THEN /\ req' = [req EXCEPT ![p] = Respond(@, 500, err)]
            /\ UNCHANGED <<cols, students>>
       ELSE /\ cols' = cols \cup {n}
            /\ students' = AddColumnRows(students, cols, n)
            /\ req' = [req EXCEPT ![p] = Respond(@, 200, "Column added successfully")]
  /\ UNCHANGED <<registry, prev, work, workResp, startup>>

----------------------------------------------------------------------------
(* DELETE /api/columns/:columnName *)

IsBaseColumnThree(n) == n \in {"student_id", "name", "class"}

IsBaseColumn(n) == n \in {"student_id", "name", "class", "section"}

StartRemoveColumn(p, n) ==
  /\ req[p].kind = "idle"
  /\ req' = [req EXCEPT ![p] =
               IF IsBaseColumn(n)
               THEN Respond([Idle EXCEPT !.kind = "removeColumn", !.name = n],
                            400, "Cannot delete base columns")
               ELSE [Idle EXCEPT !.kind = "removeColumn", !.pc = "delete", !.name = n]]
  /\ UNCHANGED <<registry, cols, students, prev, work, workResp, startup>>

RemoveColumnDelete(p) ==
  /\ req[p].kind = "removeColumn" /\ req[p].pc = "delete"
  /\ registry' = DeleteRegistry(registry, req[p].name)
  /\ req' = [req EXCEPT ![p] = [@ EXCEPT !.pc = "drop"]]
  /\ UNCHANGED <<cols, students, prev, work, workResp, startup>>

RemoveColumnDrop(p) ==
  /\ req[p].kind = "removeColumn" /\ req[p].pc = "drop"
  /\ LET n == req[p].name
         err == AlterDropError(cols, n) IN
       IF err # ""
       THEN /\ req' = [req EXCEPT ![p] = Respond(@, 500, err)]
            /\ UNCHANGED <<cols, students>>
       ELSE /\ cols' = cols \ {n}
            /\ students' = DropColumnRows(students, cols, n)
            /\ req' = [req EXCEPT ![p] = Respond(@, 200, "Column deleted successfully")]
  /\ UNCHANGED <<registry, prev, work, workResp, startup>>

----------------------------------------------------------------------------
(* POST /api/upload, src/server.js *)

IsBlank(v) == v = Undefined \/ v = Null \/ v = ""

ValidEntries(row) == SelectSeq(row, LAMBDA e : ~IsBlank(e.v))

UpdateColumnsWithBlanks(row) ==
  SelectSeq(Keys(row), LAMBDA c : c # "student_id")

UpdateColumns(row) ==
  SelectSeq(Keys(row), LAMBDA c : c # "student_id" /\ ~IsBlank(Get(row, c)))

UpdateEntries(row) ==
  [i \in 1..Len(UpdateColumns(row)) |->
     [k |-> UpdateColumns(row)[i], v |-> Get(row, UpdateColumns(row)[i])]]

NewColumnsUnfiltered(row, existing) == Keys(row)

NewColumns(row, existing) == SelectSeq(Keys(row), LAMBDA c : c \notin existing)

NextColumn(r) ==
  IF r.ci < Len(r.newCols)
  THEN [r EXCEPT !.ci = @ + 1, !.pc = "insertIgnore"]
  ELSE [r EXCEPT !.pc = "insertRow", !.ri = 1]

NextRowAbortsOnFailure(r) ==
  IF r.log # <<>> /\ r.log[Len(r.log)] = "failed"
  THEN Respond(r, 500, "row failed")
  ELSE IF r.ri < Len(r.sheet)
  THEN [r EXCEPT !.ri = @ + 1, !.pc = "insertRow"]
  ELSE Respond(r, 200, "File uploaded successfully")

NextRow(r) ==
  IF r.ri < Len(r.sheet)
  THEN [r EXCEPT !.ri = @ + 1, !.pc = "insertRow"]
  ELSE Respond(r, 200, "File uploaded successfully")

StartImport(p, files) ==
  /\ req[p].kind = "idle"
  /\ \E f \in files :
       req' = [req EXCEPT ![p] =
                 IF ~f.present
                 THEN Respond([Idle EXCEPT !.kind = "import"], 400, "No file uploaded")
                 ELSE IF Len(f.rows) = 0
                 THEN Respond([Idle EXCEPT !.kind = "import"], 400, "Excel file is empty")
                 ELSE [Idle EXCEPT !.kind = "import", !.pc = "existingColumns",
                                   !.sheet = f.rows, !.rows0 = students]]
  /\ UNCHANGED <<registry, cols, students, prev, work, workResp, startup>>

ImportShowColumns(p) ==
  /\ req[p].kind = "import" /\ req[p].pc = "existingColumns"
  /\ req' = [req EXCEPT ![p] =
               NextColumn([@ EXCEPT !.newCols = NewColumns(req[p].sheet[1], cols)])]
  /\ UNCHANGED <<registry, cols, students, prev, work, workResp, startup>>

ImportInsertIgnore(p) ==
  /\ req[p].kind = "import" /\ req[p].pc = "insertIgnore"
  /\ registry' = InsertIgnoreRegistry(registry, req[p].newCols[req[p].ci])
  /\ req' = [req EXCEPT ![p] = [@ EXCEPT !.pc = "showLike"]]
  /\ UNCHANGED <<cols, students, prev, work, workResp, startup>>

ImportShowLike(p) ==
  /\ req[p].kind = "import" /\ req[p].pc = "showLike"
  /\ req' = [req EXCEPT ![p] =
               IF Cardinality(ShowColumnsLike(cols, @.newCols[@.ci])) = 0
               THEN [@ EXCEPT !.pc = "alterAdd"]
               ELSE NextColumn(@)]
  /\ UNCHANGED <<registry, cols, students, prev, work, workResp, startup>>

ColumnErrorRethrown(r, err) == Respond(r, 500, err)

ColumnErrorCaught(r, err) == NextColumn([r EXCEPT !.colErrs = Append(@, err)])

ImportAlterAdd(p) ==
  /\ req[p].kind = "import" /\ req[p].pc = "alterAdd"
  /\ LET n == req[p].newCols[req[p].ci]
         err == AlterAddError(cols, n) IN
       IF err # ""
       THEN /\ req' = [req EXCEPT ![p] = ColumnErrorCaught(@, err)]
            /\ UNCHANGED <<cols, students>>
       ELSE /\ cols' = cols \cup {n}
            /\ students' = AddColumnRows(students, cols, n)
            /\ req' = [req EXCEPT ![p] = NextColumn(@)]
  /\ UNCHANGED <<registry, prev, work, workResp, startup>>

ImportInsertRow(p) ==
  /\ req[p].kind = "import" /\ req[p].pc = "insertRow"
  /\ LET row == req[p].sheet[req[p].ri]
         entries == ValidEntries(row)
         err == InsertStudentsError(cols, students, entries) IN
       IF Len(entries) = 0
       THEN /\ req' = [req EXCEPT ![p] = NextRow([@ EXCEPT !.log = Append(@, "skipped")])]
            /\ UNCHANGED students
       ELSE IF err = ""
       THEN /\ students' = students \cup {NewStudent(cols, entries)}
            /\ req' = [req EXCEPT ![p] =
                         NextRow([@ EXCEPT !.processed = @ + 1,
                                           !.log = Append(@, "inserted")])]
       ELSE IF err = "ER_DUP_ENTRY"
       THEN /\ req' = [req EXCEPT ![p] =
                         IF Len(UpdateColumns(row)) > 0
                         THEN [@ EXCEPT !.pc = "updateRow"]
                         ELSE NextRow([@ EXCEPT !.log = Append(@, "unchanged")])]
            /\ UNCHANGED students
       ELSE /\ req' = [req EXCEPT ![p] =
                         NextRow([@ EXCEPT !.failed = @ + 1,
                                           !.log = Append(@, "failed")])]
            /\ UNCHANGED students
  /\ UNCHANGED <<registry, cols, prev, work, workResp, startup>>

ImportUpdateRow(p) ==
  /\ req[p].kind = "import" /\ req[p].pc = "updateRow"
  /\ LET row == req[p].sheet[req[p].ri]
         sets == UpdateEntries(row)
         sid == Get(row, "student_id")
         err == UpdateStudentsError(cols, students, sets, sid) IN
       IF err = ""
       THEN /\ students' = UpdateStudents(cols, students, sets, sid)
            /\ req' = [req EXCEPT ![p] =
                         NextRow([@ EXCEPT !.processed = @ + 1,
                                           !.log = Append(@, "updated")])]
       ELSE /\ req' = [req EXCEPT ![p] =
                         NextRow([@ EXCEPT !.failed = @ + 1,
                                           !.log = Append(@, "failed")])]
            /\ UNCHANGED students
  /\ UNCHANGED <<registry, cols, prev, work, workResp, startup>>

----------------------------------------------------------------------------
(* src/unnamed/part_000: the handlers that differ from src/server.js *)

AddColumnSelectExisting0(p) ==
  /\ req[p].kind = "addColumn" /\ req[p].pc = "selectExisting"
  /\ req' = [req EXCEPT ![p] =
               IF Len(SelectRegistryByName(registry, @.name)) > 0
               THEN Respond(@, 400, "Column already exists")
               ELSE [@ EXCEPT !.pc = "insert"]]
  /\ UNCHANGED <<registry, cols, students, prev, work, workResp, startup>>

NextColumn0(r) ==
  IF r.ci < Len(r.newCols)
  THEN [r EXCEPT !.ci = @ + 1, !.pc = "insertIgnore"]
  ELSE [r EXCEPT !.pc = "upsertRow", !.ri = 1]

NextRow0(r) ==
  IF r.ri < Len(r.sheet)
  THEN [r EXCEPT !.ri = @ + 1, !.pc = "upsertRow"]
  ELSE Respond(r, 200, "File uploaded successfully")

ImportSelectRegistry0(p) ==
  /\ req[p].kind = "import" /\ req[p].pc = "existingColumns"
  /\ req' = [req EXCEPT ![p] =
               NextColumn0([@ EXCEPT !.newCols =
                 NewColumns(req[p].sheet[1], Range(BaseColumns \o registry))])]
  /\ UNCHANGED <<registry, cols, students, prev, work, workResp, startup>>

ImportInsertIgnore0(p) ==
  /\ req[p].kind = "import" /\ req[p].pc = "insertIgnore"
  /\ registry' = InsertIgnoreRegistry(registry, req[p].newCols[req[p].ci])
  /\ req' = [req EXCEPT ![p] = [@ EXCEPT !.pc = "alterIfNotExists"]]
  /\ UNCHANGED <<cols, students, prev, work, workResp, startup>>

AlterAddIfNotExistsError(cs, n) == "ER_PARSE_ERROR"

ImportAlterIfNotExists0(p) ==
  /\ req[p].kind = "import" /\ req[p].pc = "alterIfNotExists"
  /\ LET n == req[p].newCols[req[p].ci]
         err == AlterAddIfNotExistsError(cols, n) IN
       IF err # ""
       THEN /\ req' = [req EXCEPT ![p] = ColumnErrorRethrown(@, err)]
            /\ UNCHANGED <<cols, students>>
       ELSE /\ cols' = cols \cup {n}
            /\ students' = AddColumnRows(students, cols, n)
            /\ req' = [req EXCEPT ![p] = NextColumn0(@)]
  /\ UNCHANGED <<registry, prev, work, workResp, startup>>

ImportUpsertRow0(p) ==
  /\ req[p].kind = "import" /\ req[p].pc = "upsertRow"
  /\ LET row == req[p].sheet[req[p].ri]
         sid == Get(row, "student_id")
         err == InsertStudentsError(cols, students, row) IN
       IF err = ""
       THEN /\ students' = students \cup {NewStudent(cols, row)}
            /\ req' = [req EXCEPT ![p] =
                         NextRow0([@ EXCEPT !.processed = @ + 1,
                                            !.log = Append(@, "inserted")])]
       ELSE IF err = "ER_DUP_ENTRY"
       THEN /\ students' = UpdateStudents(cols, students, row, sid)
            /\ req' = [req EXCEPT ![p] =
                         NextRow0([@ EXCEPT !.processed = @ + 1,
                                            !.log = Append(@, "updated")])]
       ELSE /\ req' = [req EXCEPT ![p] = NextRow0([@ EXCEPT !.log = Append(@, "failed")])]
            /\ UNCHANGED students
  /\ UNCHANGED <<registry, cols, prev, work, workResp, startup>>

----------------------------------------------------------------------------
(* POST /api/work-status and PUT /api/work-status/:id: one statement each *)

MaxItems == 2

StatusEnum == {"pending", "started", "completed"}

InsertWorkError(task, status, deadline) ==
  IF SqlValue(task) = Null \/ SqlValue(deadline) = Null THEN "ER_BAD_NULL_ERROR"
  ELSE IF SqlValue(status) # Null /\ status \notin StatusEnum THEN "WARN_DATA_TRUNCATED"
  ELSE ""

NewWorkItem(id, task, status, startDate, deadline) ==
  [id |-> id, task |-> task, status |-> SqlValue(status),
   start_date |-> SqlValue(startDate), deadline |-> deadline,
   completed_date |-> Null]

UpdateWorkError(items, id, status) ==
  IF (\E i \in 1..Len(items) : items[i].id = id)
     /\ SqlValue(status) # Null /\ status \notin StatusEnum
  THEN "WARN_DATA_TRUNCATED"
  ELSE ""

UpdateWork(items, id, status, completedDate) ==
  [i \in 1..Len(items) |->
     IF items[i].id = id
     THEN [items[i] EXCEPT !.status = SqlValue(status),
                           !.completed_date = SqlValue(completedDate)]
     ELSE items[i]]

AddWorkStatus(task, status, startDate, deadline) ==
  /\ Len(work) < MaxItems
  /\ LET err == InsertWorkError(task, status, deadline)
         id == Len(work) + 1 IN
       IF err # ""
       THEN /\ workResp' = [code |-> 500, id |-> 0]
            /\ UNCHANGED work
       ELSE /\ work' = Append(work, NewWorkItem(id, task, status, startDate, deadline))
            /\ workResp' = [code |-> 200, id |-> id]
  /\ UNCHANGED <<registry, cols, students, req, prev, startup>>

UpdateWorkStatus(id, status, completedDate) ==
  /\ LET err == UpdateWorkError(work, id, status) IN
       IF err # ""
       THEN /\ workResp' = [code |-> 500, id |-> 0]
            /\ UNCHANGED work
       ELSE /\ work' = UpdateWork(work, id, status, completedDate)
            /\ workResp' = [code |-> 200, id |-> 0]
  /\ UNCHANGED <<registry, cols, students, req, prev, startup>>

----------------------------------------------------------------------------
(* The client receives the response *)

Completed(r) ==
  [kind |-> r.kind, name |-> r.name, code |-> r.code, sheet |-> r.sheet,
   processed |-> r.processed, failed |-> r.failed, newCols |-> r.newCols]

Return(p) ==
  /\ req[p].pc = "done"
  /\ req' = [req EXCEPT ![p] = Idle]
  /\ prev' = Completed(req[p])
  /\ UNCHANGED <<registry, cols, students, work, workResp, startup>>

----------------------------------------------------------------------------
(* Inputs *)

E(k, v) == [k |-> k, v |-> v]

Student(sid, nm, cl, sec) ==
  <<E("student_id", sid), E("name", nm), E("class", cl), E("section", sec)>>

File(rows) == [present |-> TRUE, rows |-> rows]

NoFile == [present |-> FALSE, rows |-> <<>>]

SheetAge == <<Student("S1", "Alice", "10", "A") \o <<E("age", "12")>>>>

SheetBlankAge == <<Student("S1", "Alicia", "10", "A") \o <<E("age", "")>>>>

PartialRow ==
  <<E("student_id", "S1"), E("name", "Alice"), E("class", ""), E("section", Null)>>

SheetPartial == <<PartialRow>>

SheetNoId == <<<<E("name", "Dan"), E("class", "10"), E("section", "A")>>>>

SheetTwice ==
  <<Student("S1", "Alice", "10", "A"), Student("S1", "Alicia", "10", "A")>>

SheetExtraKey ==
  <<Student("S1", "Alice", "10", "A"),
    Student("S2", "Bob", "9", "B") \o <<E("house", "red")>>>>

SheetBlankRow ==
  <<Student("S2", "Bob", "9", "B"), <<E("name", ""), E("class", Null)>>>>

SheetWildcard == <<Student("S2", "Bob", "9", "B") \o <<E("na_e", "x")>>>>

SheetBadName == <<Student("S2", "Bob", "9", "B") \o <<E("note ", "x")>>>>

TenIds == <<"S1", "S2", "S3", "S4", "S5", "S6", "S7", "S8", "S9", "S10">>

MissingRow == 4

SheetTen ==
  [i \in 1..Len(TenIds) |->
     IF i = MissingRow
     THEN <<E("name", "Dan"), E("class", "10"), E("section", "A")>>
     ELSE Student(TenIds[i], "Kid", "10", "A")]

AddNames == {"name", "age"}

RemoveNames == BaseSet \cup {"age"}

Files == {NoFile, File(<<>>), File(SheetAge), File(SheetPartial)}

SeqAddNames == {"name", "age", "na_e", "note "}

SeqRemoveNames == BaseSet \cup {"age", "note "}

SeqFiles ==
  {NoFile} \cup
  {File(sh) : sh \in {<<>>, SheetAge, SheetBlankAge, SheetNoId,
                       SheetTwice, SheetExtraKey, SheetBlankRow, SheetWildcard,
                       SheetBadName, SheetTen}}

----------------------------------------------------------------------------
(* src/server.js with requests in flight together *)

Next ==
  \E p \in Procs :
    \/ StartListColumns(p)
    \/ ListColumnsSelect(p)
    \/ \E n \in AddNames : StartAddColumn(p, n)
    \/ AddColumnSelectExisting(p)
    \/ AddColumnShowColumns(p)
    \/ AddColumnInsert(p)
    \/ AddColumnAlter(p)
    \/ \E n \in RemoveNames : StartRemoveColumn(p, n)
    \/ RemoveColumnDelete(p)
    \/ RemoveColumnDrop(p)
    \/ StartImport(p, Files)
    \/ ImportShowColumns(p)
    \/ ImportInsertIgnore(p)
    \/ ImportShowLike(p)
    \/ ImportAlterAdd(p)
    \/ ImportInsertRow(p)
    \/ ImportUpdateRow(p)
    \/ Return(p)

Spec == Init /\ [][Next]_vars

(* src/server.js with one request at a time *)

NextSeq ==
  \/ StartListColumns(1)
  \/ ListColumnsSelect(1)
  \/ \E n \in SeqAddNames : StartAddColumn(1, n)
  \/ AddColumnSelectExisting(1)
  \/ AddColumnShowColumns(1)
  \/ AddColumnInsert(1)
  \/ AddColumnAlter(1)
  \/ \E n \in SeqRemoveNames : StartRemoveColumn(1, n)
  \/ RemoveColumnDelete(1)
  \/ RemoveColumnDrop(1)
  \/ StartImport(1, SeqFiles)
  \/ ImportShowColumns(1)
  \/ ImportInsertIgnore(1)
  \/ ImportShowLike(1)
  \/ ImportAlterAdd(1)
  \/ ImportInsertRow(1)
  \/ ImportUpdateRow(1)
  \/ Return(1)

SpecSeq == Init /\ [][NextSeq]_vars

(* src/unnamed/part_000 with one request at a time *)

SheetBase == <<Student("S1", "Alice", "10", "A")>>

AddNames0 == {"name", "age"}

RemoveNames0 == {"section", "age"}

Files0 == {NoFile, File(<<>>), File(SheetBase), File(SheetTwice), File(SheetPartial),
           File(SheetAge)}

Next0 ==
  \/ StartListColumns(1)
  \/ ListColumnsSelect(1)
  \/ \E n \in AddNames0 : StartAddColumn(1, n)
  \/ AddColumnSelectExisting0(1)
  \/ AddColumnInsert(1)
  \/ AddColumnAlter(1)
  \/ \E n \in RemoveNames0 : StartRemoveColumn(1, n)
  \/ RemoveColumnDelete(1)
  \/ RemoveColumnDrop(1)
  \/ StartImport(1, Files0)
  \/ ImportSelectRegistry0(1)
  \/ ImportInsertIgnore0(1)
  \/ ImportAlterIfNotExists0(1)
  \/ ImportUpsertRow0(1)
  \/ Return(1)

Spec0 == Init /\ [][Next0]_vars

(* The work-item tracker *)

StatusInputs == StatusEnum \cup {Undefined, "done"}

DateInputs == {Undefined, "2024-01-05"}

TaskInputs == {Undefined, "grade papers"}

NextWork ==
  \/ \E t \in TaskInputs, st \in StatusInputs, sd \in DateInputs, dl \in DateInputs :
       AddWorkStatus(t, st, sd, dl)
  \/ \E id \in 1..(MaxItems + 1), st \in StatusInputs, cd \in DateInputs :
       UpdateWorkStatus(id, st, cd)

SpecWork == Init /\ [][NextWork]_vars

(* Startup of src/server.js.  Every awaited promise settles: the pool     *)
(* answers or times out, and the timer fires.                              *)

InitStartup ==
  /\ registry = <<>>
  /\ cols = StudentsColumns
  /\ students = {}
  /\ req = [p \in Procs |-> Idle]
  /\ prev = NoPrev
  /\ work = <<>>
  /\ workResp = [code |-> 0, id |-> 0]
  /\ startup = Starting

NextStartup ==
  \/ \E ok \in BOOLEAN : InitDBGetConnection(ok)
  \/ \E ok \in BOOLEAN : CreateTablesGetConnection(ok)
  \/ \E ok \in BOOLEAN : CreateTable(ok)
  \/ RetryAfterDelay
  \/ Listen

SpecStartup == InitStartup /\ [][NextStartup]_vars

SpecStartupFair == SpecStartup /\ WF_vars(NextStartup)

(* src/server.js with two POST /api/columns in flight and nothing else *)

ConcurrentAddNames == {"age", "house", "note "}

NextAdd ==
  \E p \in Procs :
    \/ \E n \in ConcurrentAddNames : StartAddColumn(p, n)
    \/ AddColumnSelectExisting(p)
    \/ AddColumnShowColumns(p)
    \/ AddColumnInsert(p)
    \/ AddColumnAlter(p)
    \/ Return(p)

SpecAdd == Init /\ [][NextAdd]_vars

----------------------------------------------------------------------------
(* Claims *)

Quiescent == \A p \in Procs : req[p].kind = "idle"

DynamicColumns == cols \ StudentsColumns

(* C1: whenever no request is in flight, the names in the column registry  *)
(* are exactly the dynamic columns of the students table, and no student   *)
(* row carries a dynamic attribute that is not registered.                 *)
C1_RegistryMatchesTable ==
  Quiescent =>
    /\ Range(registry) = DynamicColumns
    /\ \A r \in students : (DOMAIN r) \ BaseSet \subseteq Range(registry)

Count(s, x) == Cardinality({i \in 1..Len(s) : s[i] = x})

AfterAdded(r) ==
  /\ prev.kind = "addColumn" /\ prev.code = 200
  /\ r.kind # "idle"

(* C2: after a successful addColumn(name), a listColumns() that follows    *)
(* returns name exactly once, and an addColumn(name) that follows answers  *)
(* 400 'Column already exists' and changes neither the registry nor the    *)
(* students table.                                                         *)
C2_AddThenListThenConflict ==
  /\ [](\A p \in Procs :
         AfterAdded(req[p]) /\ req[p].pc = "done" =>
           /\ req[p].kind = "listColumns" => Count(req[p].list, prev.name) = 1
           /\ req[p].kind = "addColumn" /\ req[p].name = prev.name =>
                req[p].code = 400 /\ req[p].msg = "Column already exists")
  /\ [][\A p \in Procs :
         AfterAdded(req[p]) /\ req[p].kind = "addColumn" /\ req[p].name = prev.name =>
           UNCHANGED <<registry, cols, students>>]_vars

C2_Witness ==
  /\ AfterAdded(req[1]) /\ req[1].pc = "done"
  /\ req[1].kind = "addColumn" /\ req[1].name = prev.name
  /\ req[1].code = 400
  /\ students # {}

RemovesFixed(r) == r.kind = "removeColumn" /\ r.name \in BaseSet

(* C3: removeColumn of student_id, name, class or section answers 400 in   *)
(* every state and issues no statement: no step of such a request changes  *)
(* the registry, the columns of the students table or a student row.       *)
C3_RemoveFixedRejected ==
  /\ [](\A p \in Procs :
         RemovesFixed(req[p]) => req[p].pc = "done" /\ req[p].code = 400)
  /\ [][\A p \in Procs :
         req'[p] # req[p] /\ (RemovesFixed(req[p]) \/ RemovesFixed(req'[p])) =>
           UNCHANGED <<registry, cols, students>>]_vars

C3_Witness ==
  /\ RemovesFixed(req[1]) /\ req[1].name = "section" /\ req[1].code = 400
  /\ registry # <<>> /\ students # {}
  /\ req[2].kind = "import"

(* C4: the column registry never holds student_id, name, class or section, *)
(* so that listColumns() lists no fixed name twice.                        *)
C4_RegistryExcludesFixed ==
  /\ Range(registry) \cap BaseSet = {}
  /\ \A n \in BaseSet : Count(ListColumnsResult(registry), n) = 1

InRowLoop(r) == r.kind = "import" /\ r.pc \in {"insertRow", "updateRow"}

CurrentRow(r) == r.sheet[r.ri]

Exists(sid) == \E r \in students : r["student_id"] = sid

(* C5: when the student_id of an imported row is already stored, the steps *)
(* of its upsert leave every attribute for which the row has an empty, a   *)
(* null or no value as it was stored, leave the stored student_id as it    *)
(* was, and change no other student row.                                   *)
C5_UpdateKeepsUnsupplied ==
  [][\A p \in Procs :
       InRowLoop(req[p]) /\ req'[p] # req[p]
       /\ Exists(Get(CurrentRow(req[p]), "student_id")) =>
         LET row == CurrentRow(req[p])
             sid == Get(row, "student_id") IN
           /\ Cardinality(students') = Cardinality(students)
           /\ \A r \in students :
                IF r["student_id"] = sid
                THEN \E r2 \in students' :
                       /\ r2["student_id"] = sid
                       /\ DOMAIN r2 = DOMAIN r
                       /\ \A c \in DOMAIN r : IsBlank(Get(row, c)) => r2[c] = r[c]
                ELSE r \in students']_vars

C5_Witness ==
  /\ req[1].kind = "import" /\ req[1].sheet = SheetBlankAge
  /\ req[1].log = <<"updated">>
  /\ \E r \in students :
       /\ r["student_id"] = "S1" /\ r["name"] = "Alicia"
       /\ "age" \in DOMAIN r /\ r["age"] = "12"

(* C6: upserting {student_id: "S1", name: "Alice", class: "", section:     *)
(* null} when no student S1 is stored creates a record with name "Alice"   *)
(* and with class and section unset.                                       *)
C6_PartialRowCreated ==
  [][\A p \in Procs :
       InRowLoop(req[p]) /\ req'[p] # req[p]
       /\ CurrentRow(req[p]) = PartialRow /\ ~Exists("S1") =>
         /\ req'[p].log = Append(req[p].log, "inserted")
         /\ \E r \in students' :
              /\ r["student_id"] = "S1" /\ r["name"] = "Alice"
              /\ r["class"] = Null /\ r["section"] = Null]_vars

ImportAnswered(r) == r.kind = "import" /\ r.pc = "done" /\ r.code # 400

LacksId(row) == IsBlank(Get(row, "student_id"))

HasData(row) == Len(ValidEntries(row)) > 0

Complete(row) ==
  /\ \A c \in BaseSet : ~IsBlank(Get(row, c))
  /\ \A e \in Range(ValidEntries(row)) : e.k \in cols

Written(r) == {i \in 1..Len(r.log) : r.log[i] \in {"inserted", "updated"}}

Failed(r) == {i \in 1..Len(r.log) : r.log[i] = "failed"}

(* C7 as claimed: every row without student_id is counted in failed, each  *)
(* complete row is counted in processed, and the import answers 200.       *)
C7_EveryRowWithoutIdFails ==
  \A p \in Procs :
    ImportAnswered(req[p]) =>
      /\ req[p].code = 200 /\ Len(req[p].log) = Len(req[p].sheet)
      /\ \A i \in 1..Len(req[p].sheet) :
           /\ LacksId(req[p].sheet[i]) => i \in Failed(req[p])
           /\ Complete(req[p].sheet[i]) => i \in Written(req[p])
      /\ req[p].processed = Cardinality(Written(req[p]))
      /\ req[p].failed = Cardinality(Failed(req[p]))

(* C7: a row without student_id that holds at least one non-empty value    *)
(* writes nothing and is counted in failed; every complete row of the      *)
(* batch is written and counted in processed; the import answers 200 with  *)
(* those counts: 9 and 1 for ten rows of which one lacks student_id.       *)
C7_MissingIdIsRowFailure ==
  /\ [](\A p \in Procs :
         ImportAnswered(req[p]) =>
           /\ req[p].code = 200 /\ Len(req[p].log) = Len(req[p].sheet)
           /\ \A i \in 1..Len(req[p].sheet) :
                /\ LacksId(req[p].sheet[i]) /\ HasData(req[p].sheet[i]) =>
                     i \in Failed(req[p])
                /\ Complete(req[p].sheet[i]) => i \in Written(req[p])
           /\ req[p].processed = Cardinality(Written(req[p]))
           /\ req[p].failed = Cardinality(Failed(req[p]))
           /\ req[p].sheet = SheetTen => req[p].processed = 9 /\ req[p].failed = 1)
  /\ [][\A p \in Procs :
         InRowLoop(req[p]) /\ LacksId(CurrentRow(req[p])) => students' = students]_vars

C7_Witness ==
  /\ ImportAnswered(req[1]) /\ req[1].sheet = SheetTen
  /\ req[1].processed = 9 /\ req[1].failed = 1
  /\ Cardinality(students) = 9

Reimport(r) ==
  /\ ImportAnswered(r)
  /\ prev.kind = "import" /\ prev.code = 200 /\ prev.sheet = r.sheet

PlainName(n) ==
  /\ IdentifierOk(n)
  /\ \A i \in 1..Len(Chars(n)) : Chars(n)[i] \notin {"_", "%"}

C9_ColumnErrorFailsImport ==
  \A p \in Procs :
    req[p].kind = "import"
    /\ (\E e \in Range(req[p].colErrs) : e # "ER_DUP_FIELDNAME") =>
      req[p].pc = "done" /\ req[p].code = 500

(* C10: every stored work item has status pending, started or completed.   *)
C10_StatusInEnum ==
  \A i \in 1..Len(work) : work[i].status \in StatusEnum

(* C11: startup ends after a bounded number of attempts.  initDB is called *)
(* at most 6 times (the first call and 5 retries); one timer of the same   *)
(* 5000 ms is awaited between two consecutive calls; the process exits     *)
(* with code 1 only when the sixth call has failed; the server listens     *)
(* only when, in the last call, the connection test and createTables both  *)
(* succeeded (all three tables made); and startup always reaches one of    *)
(* the two ends.                                                           *)
C11_Bounded ==
  /\ startup.attempts <= 6
  /\ \A i \in DOMAIN startup.delays : startup.delays[i] = 5000
  /\ Len(startup.delays) =
       IF startup.pc = "initDB" THEN startup.attempts ELSE startup.attempts - 1
  /\ startup.pc = "exited" =>
       /\ startup.attempts = 6 /\ startup.exitCode = 1
       /\ ~startup.listening
       /\ ~(startup.connected /\ startup.created)
  /\ startup.listening =>
       /\ startup.connected /\ startup.created
       /\ startup.tables = {"students", "table_columns", "work_status"}
       /\ startup.held = 0
       /\ startup.exitCode = 0

C11_Ended == startup.pc \in {"listening", "exited"}

C11_StartupBoundedRetry == []C11_Bounded /\ <>C11_Ended

C11_Witness ==
  /\ startup.listening
  /\ startup.attempts = 6
  /\ Len(startup.delays) = 5

(* C12: when two addColumn requests for one name that was not registered   *)
(* when they arrived have both been answered, having run together with no  *)
(* other request, at most one of them was answered 200 and the other with  *)
(* an error, the registry holds the name exactly once and the students     *)
(* table has the column.                                                   *)
BothAdded(n) ==
  \A p \in Procs :
    /\ req[p].kind = "addColumn" /\ req[p].pc = "done" /\ req[p].name = n
    /\ Count(req[p].reg0, n) = 0

C12_ConcurrentAddOnce ==
  \A n \in ConcurrentAddNames :
    BothAdded(n) =>
      /\ Cardinality({p \in Procs : req[p].code = 200}) <= 1
      /\ \E p \in Procs : req[p].code >= 400
      /\ Count(registry, n) = 1
      /\ n \in cols

====
